---- MODULE Spec2Model ----
(***************************************************************************)
(* The FluidSDK integration-test scripts as state machines.  One run of    *)
(* one script is one behaviour: Init picks the script and its process      *)
(* environment, every action is one step of that script's main function,   *)
(* and every call on an external collaborator (the SDK facade, fetch, the  *)
(* chain provider, timers) is appended to `calls`; its outcome (a value or *)
(* a thrown error) is a nondeterministic choice.                           *)
(***************************************************************************)
EXTENDS Integers, Sequences, FiniteSets, TLC

VARIABLES
    script,      \* which script this process runs
    env,         \* process.env after dotenv.config()
    pc,          \* position in the script's main function
    m,           \* the local variables of main
    agent,       \* the Agent object returned by sdk.createAgent
    calls,       \* every external call issued so far, in order
    log,         \* the console lines printed so far (by tag)
    exitCode,    \* the status the process ended with, -1 while running
    mcpServerProcess,  \* test-mcp: the spawned MCP server subprocess
    client       \* test-mcp: the MCP client connection

vars == <<script, env, pc, m, agent, calls, log, exitCode, mcpServerProcess, client>>

-----------------------------------------------------------------------------
(* Environment *)

Scripts == {"fm", "ff", "tm", "fb", "bs"}

\* a private key variable: unset, malformed, or one of two wallets' keys
KeyVals == {"none", "bad", "k1", "k2"}

\* the owner key is k1 whenever it is a wallet's key (the two keys are
\* interchangeable), and TEST_AGENT_ID is drawn only for the script reading it
Envs(s) == [RPC_URL : BOOLEAN, PRIVATE_KEY : KeyVals \ {"k2"},
            FEEDBACK_PRIVATE_KEY : KeyVals, PINATA_JWT : BOOLEAN,
            TEST_AGENT_ID : IF s = "bs" THEN BOOLEAN ELSE {FALSE}]

\* new ethers.Wallet(key).address: distinct keys give distinct addresses
Address(key) == CASE key = "k1" -> "0xA1"
                  [] key = "k2" -> "0xA2"
                  [] OTHER -> "none"

\* new ethers.Wallet(key) throws on a malformed key
WalletThrows(key) == key = "bad"

AgentId == "11155111:1"

NoResp == [status |-> "none", entries |-> <<>>]

Locals0 == [signer |-> "none", feedbackSigner |-> "none", mcpConnected |-> FALSE,
            sdk |-> FALSE, ipfsClient |-> FALSE, balance |-> "none",
            feedbackBalance |-> "none",
            mcpTools |-> <<>>, mcpPrompts |-> <<>>, mcpResources |-> <<>>,
            resp |-> NoResp, agentURI |-> "none", newAgentId |-> "none",
            mcpCapabilities |-> FALSE, agentData |-> FALSE, i |-> 0, feedbackFile |-> FALSE, feedback |-> FALSE]

Agent0 == [created |-> FALSE, mcp |-> FALSE, active |-> FALSE, caps |-> FALSE,
           mcpTools |-> <<>>, mcpPrompts |-> <<>>, mcpResources |-> <<>>]

Start(s) == CASE s = "fm" -> "fm_config"
              [] s = "ff" -> "ff_config"
              [] s = "tm" -> "tm_config"
              [] s = "fb" -> "fb_config"
              [] s = "bs" -> "bs_init"

Init ==
    /\ script \in Scripts
    /\ env \in Envs(script)
    /\ pc = Start(script)
    /\ m = Locals0
    /\ agent = Agent0
    /\ calls = <<>>
    /\ log = {}
    /\ exitCode = -1
    /\ mcpServerProcess = "none"
    /\ client = "none"

-----------------------------------------------------------------------------
(* Helpers *)

Call(op, id, by) == [op |-> op, id |-> id, by |-> by]

Issue(op, id, by) == calls' = Append(calls, Call(op, id, by))

Count(op) == Cardinality({k \in DOMAIN calls : calls[k].op = op})

\* process.exit(status) after printing the lines `tags`
Exit(status, tags) ==
    /\ pc' = "exited"
    /\ exitCode' = status
    /\ log' = log \cup tags

\* a step of main that goes on to `next` without leaving the process
Goto(next) == pc' = next /\ exitCode' = exitCode

\* an outer catch that reports the error and lets the run go on
Fatal_Resumed(msg) == Goto("fm_search2") /\ log' = log \cup {"FATAL ERROR", msg}

\* the outer catch of main: print FATAL ERROR and the message, process.exit(1)
Fatal(msg) == Exit(1, {"FATAL ERROR", msg})

-----------------------------------------------------------------------------
(* fullflow-mcp-subgraph.js: main *)

\* a configuration check that forgets the private key
FM_ConfigOk_NoKeyCheck(e) == e.RPC_URL

\* lines 148-153: both RPC_URL and PRIVATE_KEY are required
FM_ConfigOk(e) == e.RPC_URL /\ e.PRIVATE_KEY # "none"

FM_Config ==
    /\ script = "fm" /\ pc = "fm_config"
    /\ IF ~env.RPC_URL THEN Fatal("RPC_URL not set")
       ELSE IF ~FM_ConfigOk(env) THEN Fatal("PRIVATE_KEY not set")
       ELSE Goto("fm_signers") /\ log' = log
    /\ UNCHANGED <<script, env, mcpServerProcess, client, m, agent, calls>>

\* lines 155-170: the owner wallet, and the reviewer wallet when configured
FM_Signers ==
    /\ script = "fm" /\ pc = "fm_signers"
    /\ IF WalletThrows(env.PRIVATE_KEY)
         THEN Fatal("invalid private key") /\ m' = m
       ELSE IF env.FEEDBACK_PRIVATE_KEY # "none"
         THEN IF WalletThrows(env.FEEDBACK_PRIVATE_KEY)
                THEN /\ Fatal("invalid private key")
                     /\ m' = [m EXCEPT !.signer = Address(env.PRIVATE_KEY)]
                ELSE /\ Goto("fm_connect")
                     /\ log' = log \cup {"Configuration"}
                     /\ m' = [m EXCEPT !.signer = Address(env.PRIVATE_KEY),
                                       !.feedbackSigner = Address(env.FEEDBACK_PRIVATE_KEY)]
       ELSE /\ Goto("fm_connect")
            /\ log' = log \cup {"WARNING: FEEDBACK_PRIVATE_KEY not set"}
            /\ m' = [m EXCEPT !.signer = Address(env.PRIVATE_KEY)]
    /\ UNCHANGED <<script, env, mcpServerProcess, client, agent, calls>>

\* lines 23-47: testMCPConnectivity; every failure is caught and gives false
ConnectivityOutcomes == {"neterr", "non2xx", "badjson", "ok"}

testMCPConnectivity(r) == r = "ok"

\* an unreachable MCP server treated as a failed run
NotAccessible_Fatal == Exit(1, {"WARNING: MCP server is not accessible", "FATAL ERROR"})

\* lines 179-182: a false result is warned about and the test continues
NotAccessible ==
    /\ log' = log \cup {"WARNING: MCP server is not accessible"}
    /\ Goto("fm_sdk")

\* lines 178-182: the result is only reported, the run goes on either way
FM_Connectivity ==
    /\ script = "fm" /\ pc = "fm_connect"
    /\ \E r \in ConnectivityOutcomes :
         /\ m' = [m EXCEPT !.mcpConnected = testMCPConnectivity(r)]
         /\ IF testMCPConnectivity(r) THEN Goto("fm_sdk") /\ log' = log
            ELSE NotAccessible
    /\ Issue("fetch /info", "", "")
    /\ UNCHANGED <<script, env, mcpServerProcess, client, agent>>

\* lines 187-202: the SDK gets an IPFS client only when PINATA_JWT is set
FM_InitSDK ==
    /\ script = "fm" /\ pc = "fm_sdk"
    /\ Issue("new FluidSDK", "", m.signer)
    /\ \/ /\ m' = [m EXCEPT !.sdk = TRUE, !.ipfsClient = env.PINATA_JWT]
          /\ Goto("fm_chain") /\ log' = log
       \/ /\ Fatal("SDK constructor threw") /\ m' = m
    /\ UNCHANGED <<script, env, mcpServerProcess, client, agent>>

\* a rejected chainId() that is reported and then passed over
ChainIdCaught_Swallowed == Goto("fm_balance") /\ log' = log \cup {"chainId failed"}

\* line 204 has no try block of its own: a rejection of sdk.chainId() is
\* caught by the outer catch, lines 548-557
ChainIdCaught == Fatal("chainId failed")

\* line 204
FM_ChainId ==
    /\ script = "fm" /\ pc = "fm_chain"
    /\ Issue("chainId", "", "")
    /\ \/ Goto("fm_balance") /\ log' = log
       \/ ChainIdCaught
    /\ UNCHANGED <<script, env, mcpServerProcess, client, m, agent>>

Balances == {"zero", "positive"}

\* a balance check that lets every balance through
BalanceOk_WarnOnly(b) == TRUE

\* lines 213 and 219: balance === 0n is what stops the run
BalanceOk(b) == b # "zero"

\* lines 207-223: owner balance is read first, the reviewer's is read and
\* checked next, and the owner's is checked last
FM_Balance ==
    /\ script = "fm" /\ pc = "fm_balance"
    /\ \/ /\ Issue("getBalance", "", m.signer)
          /\ Fatal("getBalance failed") /\ m' = m
       \/ \E b \in Balances :
            /\ m.feedbackSigner = "none"
            /\ Issue("getBalance", "", m.signer)
            /\ m' = [m EXCEPT !.balance = b]
            /\ IF ~BalanceOk(b) THEN Fatal("Insufficient balance for testing")
               ELSE Goto("fm_registries") /\ log' = log
       \/ /\ m.feedbackSigner # "none"
          /\ calls' = calls \o <<Call("getBalance", "", m.signer),
                                 Call("getBalance", "", m.feedbackSigner)>>
          /\ \E b \in Balances :
               \/ /\ m' = [m EXCEPT !.balance = b]
                  /\ Fatal("getBalance failed")
               \/ \E fb \in Balances :
                    /\ m' = [m EXCEPT !.balance = b, !.feedbackBalance = fb]
                    /\ IF ~BalanceOk(fb) THEN Fatal("Insufficient balance in feedback wallet")
                       ELSE IF ~BalanceOk(b) THEN Fatal("Insufficient balance for testing")
                       ELSE Goto("fm_registries") /\ log' = log
    /\ UNCHANGED <<script, env, mcpServerProcess, client, agent>>

\* lines 225-229
FM_Registries ==
    /\ script = "fm" /\ pc = "fm_registries"
    /\ Issue("registries", "", "")
    /\ \/ Goto("fm_search1") /\ log' = log
       \/ Fatal("No registry addresses configured")
    /\ UNCHANGED <<script, env, mcpServerProcess, client, m, agent>>

\* lines 86-100: searchAgentsInSubgraph never throws; a failure gives []
SearchOutcomes == {"throws", "without", "with"}

FM_Search1 ==
    /\ script = "fm" /\ pc = "fm_search1"
    /\ Issue("searchAgents", "", "")
    /\ \E r \in {"throws", "without"} :
         log' = log \cup (IF r = "throws" THEN {"Agent search failed"} ELSE {})
    /\ Goto("fm_create")
    /\ UNCHANGED <<script, env, mcpServerProcess, client, m, agent>>

\* line 242
FM_CreateAgent ==
    /\ script = "fm" /\ pc = "fm_create"
    /\ Issue("createAgent", "", "")
    /\ \/ /\ agent' = [agent EXCEPT !.created = TRUE]
          /\ Goto("fm_probe_tools") /\ log' = log
       \/ Fatal("createAgent failed") /\ agent' = agent
    /\ UNCHANGED <<script, env, mcpServerProcess, client, m>>

-----------------------------------------------------------------------------
(* fullflow-mcp-subgraph.js: the MCP capability probe, lines 248-344 *)

Kinds == {"tools", "prompts", "resources"}

\* what a POST <base>/mcp can come to: fetch rejects, a non-2xx status, a body
\* that is not JSON, a JSON body without result.<kind>, or a full answer
ProbeStatuses == {"neterr", "non2xx", "badjson", "noresult", "ok"}

\* the entries a server may list: a resource may come without a uri
Entries(kind) ==
    CASE kind = "tools"     -> {[name |-> "get_info", uri |-> ""]}
      [] kind = "prompts"   -> {[name |-> "greeting", uri |-> ""]}
      [] kind = "resources" -> {[name |-> "status", uri |-> "fluidsdk://status"],
                                [name |-> "docs", uri |-> ""]}

MaxEntries == 1

Bodies(kind) == UNION {[1..n -> Entries(kind)] : n \in 0..MaxEntries}

Responses(kind) ==
    {[status |-> st, entries |-> <<>>] : st \in ProbeStatuses \ {"ok"}}
      \cup {[status |-> "ok", entries |-> b] : b \in Bodies(kind)}

\* a reduction that takes the name of every entry, resources included
NameOf_NameOnly(kind, e) == e.name

\* the left operand of || is passed over when it is undefined or ""
Falsy(v) == v \in {"undefined", ""}

\* lines 269, 292, 315: t.name, p.name, r.uri || r.name
NameOf(kind, e) == IF kind = "resources" /\ ~Falsy(e.uri) THEN e.uri ELSE e.name

\* lines 266-272: the list is assigned only under response.ok and result.<kind>
ProbeNames(kind, resp) ==
    IF resp.status = "ok"
      THEN [j \in 1..Len(resp.entries) |-> NameOf(kind, resp.entries[j])]
      ELSE <<>>

\* lines 274-276: only a thrown error (fetch or response.json()) reaches the catch
ProbeWarns(resp) == resp.status \in {"neterr", "badjson"}

ProbePc(kind) == CASE kind = "tools" -> "fm_probe_tools"
                   [] kind = "prompts" -> "fm_probe_prompts"
                   [] kind = "resources" -> "fm_probe_resources"

HandlePc(kind) == CASE kind = "tools" -> "fm_handle_tools"
                    [] kind = "prompts" -> "fm_handle_prompts"
                    [] kind = "resources" -> "fm_handle_resources"

\* one try block around all three requests: a thrown error skips the rest
AfterProbe_OneTry(kind, resp) ==
    IF resp.status \in {"neterr", "badjson"} THEN "fm_setmcp"
    ELSE CASE kind = "tools" -> "fm_probe_prompts"
           [] kind = "prompts" -> "fm_probe_resources"
           [] kind = "resources" -> "fm_setmcp"

\* each request sits in its own try block: whatever happened, the next one follows
AfterProbe(kind, resp) == CASE kind = "tools" -> "fm_probe_prompts"
                            [] kind = "prompts" -> "fm_probe_resources"
                            [] kind = "resources" -> "fm_setmcp"

ListField(kind) == CASE kind = "tools" -> "mcpTools"
                     [] kind = "prompts" -> "mcpPrompts"
                     [] kind = "resources" -> "mcpResources"

WarnTag(kind) == CASE kind = "tools" -> "Could not fetch tools"
                   [] kind = "prompts" -> "Could not fetch prompts"
                   [] kind = "resources" -> "Could not fetch resources"

\* lines 256-265, 279-288, 302-311: the request goes out
FM_ProbeFetch(kind) ==
    /\ script = "fm" /\ pc = ProbePc(kind)
    /\ Issue("fetch /mcp", kind, "")
    /\ \E r \in Responses(kind) : m' = [m EXCEPT !.resp = r]
    /\ Goto(HandlePc(kind)) /\ log' = log
    /\ UNCHANGED <<script, env, mcpServerProcess, client, agent>>

\* lines 266-276, 289-299, 312-322: the answer is reduced to a name list
FM_ProbeHandle(kind) ==
    /\ script = "fm" /\ pc = HandlePc(kind)
    /\ m' = [m EXCEPT ![ListField(kind)] = ProbeNames(kind, m.resp), !.resp = NoResp]
    /\ log' = log \cup (IF ProbeWarns(m.resp) THEN {WarnTag(kind)} ELSE {})
    /\ Goto(AfterProbe(kind, m.resp))
    /\ UNCHANGED <<script, env, mcpServerProcess, client, agent, calls>>

(* The probe on its own, against servers that list several entries *)

\* entries of either shape: a resource with a uri, with an empty uri, and
\* without the uri field
LongEntries(kind) ==
    CASE kind = "tools"     -> {[name |-> "get_info", uri |-> "undefined"],
                                [name |-> "echo", uri |-> "undefined"]}
      [] kind = "prompts"   -> {[name |-> "greeting", uri |-> "undefined"],
                                [name |-> "help", uri |-> "undefined"]}
      [] kind = "resources" -> {[name |-> "status", uri |-> "fluidsdk://status"],
                                [name |-> "docs", uri |-> ""],
                                [name |-> "config", uri |-> "undefined"]}

MaxListLen == 2

LongResponses(kind) ==
    {[status |-> st, entries |-> <<>>] : st \in ProbeStatuses \ {"ok"}}
      \cup {[status |-> "ok", entries |-> b] :
               b \in UNION {[1..n -> LongEntries(kind)] : n \in 0..MaxListLen}}

\* lines 256-265, 279-288, 302-311, answered with one of the longer lists
FM_ProbeFetchLong(kind) ==
    /\ script = "fm" /\ pc = ProbePc(kind)
    /\ Issue("fetch /mcp", kind, "")
    /\ \E r \in LongResponses(kind) : m' = [m EXCEPT !.resp = r]
    /\ Goto(HandlePc(kind)) /\ log' = log
    /\ UNCHANGED <<script, env, mcpServerProcess, client, agent>>

\* main as it stands at line 248, after steps 1-4 of a one-signer run
ProbeInit ==
    /\ script = "fm"
    /\ env = [RPC_URL |-> TRUE, PRIVATE_KEY |-> "k1", FEEDBACK_PRIVATE_KEY |-> "none",
              PINATA_JWT |-> TRUE, TEST_AGENT_ID |-> FALSE]
    /\ pc = "fm_probe_tools"
    /\ \E c \in BOOLEAN :
         /\ m = [Locals0 EXCEPT !.signer = Address("k1"), !.mcpConnected = c, !.sdk = TRUE,
                                !.ipfsClient = TRUE, !.balance = "positive"]
         /\ log = {"WARNING: FEEDBACK_PRIVATE_KEY not set"}
                    \cup (IF c THEN {} ELSE {"WARNING: MCP server is not accessible"})
    /\ agent = [Agent0 EXCEPT !.created = TRUE]
    /\ calls = <<Call("fetch /info", "", ""), Call("new FluidSDK", "", Address("k1")),
                 Call("chainId", "", ""), Call("getBalance", "", Address("k1")),
                 Call("registries", "", ""), Call("searchAgents", "", ""),
                 Call("createAgent", "", "")>>
    /\ exitCode = -1
    /\ mcpServerProcess = "none"
    /\ client = "none"

ProbeNext ==
    \/ \E kind \in Kinds : FM_ProbeFetchLong(kind)
    \/ \E kind \in Kinds : FM_ProbeHandle(kind)

ProbeSpec == ProbeInit /\ [][ProbeNext]_vars

\* line 324: agent.setMCP(url, version, false); a throw is logged and rethrown
FM_SetMCP ==
    /\ script = "fm" /\ pc = "fm_setmcp"
    /\ Issue("setMCP", "", "")
    /\ \/ /\ agent' = [agent EXCEPT !.mcp = TRUE]
          /\ Goto("fm_setcaps") /\ log' = log
       \/ /\ Exit(1, {"Error configuring MCP", "FATAL ERROR"}) /\ agent' = agent
    /\ UNCHANGED <<script, env, mcpServerProcess, client, m>>

\* line 329
AnyCapability(l) == Len(l.mcpTools) > 0 \/ Len(l.mcpPrompts) > 0 \/ Len(l.mcpResources) > 0

\* lines 329-339: attach what was collected, then mark the agent active
FM_SetCaps ==
    /\ script = "fm" /\ pc = "fm_setcaps"
    /\ \/ /\ calls' = calls \o (IF AnyCapability(m)
                                  THEN <<Call("setMcpCapabilities", "", "")>> ELSE <<>>)
                            \o <<Call("setActive", "", "")>>
          /\ agent' = [agent EXCEPT
                         !.active = TRUE,
                         !.caps = AnyCapability(m),
                         !.mcpTools = IF AnyCapability(m) THEN m.mcpTools ELSE @,
                         !.mcpPrompts = IF AnyCapability(m) THEN m.mcpPrompts ELSE @,
                         !.mcpResources = IF AnyCapability(m) THEN m.mcpResources ELSE @]
          /\ Goto("fm_register") /\ log' = log
       \/ /\ AnyCapability(m)
          /\ Issue("setMcpCapabilities", "", "")
          /\ Exit(1, {"Error configuring MCP", "FATAL ERROR"}) /\ agent' = agent
    /\ UNCHANGED <<script, env, mcpServerProcess, client, m>>

-----------------------------------------------------------------------------
(* fullflow-mcp-subgraph.js: registration and verification, lines 345-434 *)

\* registration attempted without looking at the IPFS client
IpfsReady_Unchecked(l) == TRUE

\* line 350: registration needs the SDK's IPFS client
IpfsReady(l) == l.ipfsClient

\* what registerIPFS may resolve to: agentId and agentURI may each be missing
RegistrationFiles == [agentId : {"none", AgentId}, agentURI : {"none", "ipfs://cid"}]

\* lines 350-358
FM_Register ==
    /\ script = "fm" /\ pc = "fm_register"
    /\ IF ~IpfsReady(m)
         THEN Fatal("IPFS client not configured") /\ UNCHANGED <<m, calls>>
         ELSE /\ Issue("registerIPFS", "", m.signer)
              /\ \/ Fatal("registerIPFS failed") /\ m' = m
                 \/ \E rf \in RegistrationFiles :
                      /\ m' = [m EXCEPT !.agentURI = rf.agentURI, !.newAgentId = rf.agentId]
                      /\ Goto("fm_ipfsfetch") /\ log' = log
    /\ UNCHANGED <<script, env, mcpServerProcess, client, agent>>

\* a registration result used without looking at its agent id
RegistrationOk_Unchecked(l) == TRUE

\* lines 390-391: const newAgentId = registrationFile.agentId; if (!newAgentId)
RegistrationOk(l) == l.newAgentId # "none"

\* lines 360-393: the pinned file is fetched back when there is a CID (every
\* failure of that is caught), then a missing agent id is fatal
FM_IpfsFetch ==
    /\ script = "fm" /\ pc = "fm_ipfsfetch"
    /\ calls' = IF m.agentURI # "none" THEN Append(calls, Call("fetch ipfs", "", ""))
                ELSE calls
    /\ IF ~RegistrationOk(m) THEN Fatal("Registration failed - no agent ID returned")
       ELSE Goto("fm_wait") /\ log' = log
    /\ UNCHANGED <<script, env, mcpServerProcess, client, m, agent>>

\* a first lookup issued straight after registration
IndexingDelay_None == <<>>

\* line 396: setTimeout(resolve, 10000) before the first lookup
IndexingDelay == <<Call("wait 10000", "", "")>>

\* lines 394-396
FM_Wait ==
    /\ script = "fm" /\ pc = "fm_wait"
    /\ calls' = calls \o IndexingDelay
    /\ Goto("fm_lookup") /\ log' = log
    /\ UNCHANGED <<script, env, mcpServerProcess, client, m, agent>>

\* lines 51-82: queryAgentFromSubgraph gives the agent, or null when getAgent
\* gives nothing or throws
LookupOutcomes == {"found", "absent", "throws"}

queryAgentFromSubgraph(r) == r = "found"

\* line 405: for (let i = 0; i < 3; i++)
MaxRetries == 3

\* an off-by-one loop test: i <= 3
RetryAllowed_OffByOne(i) == i <= MaxRetries

RetryAllowed(i) == i < MaxRetries

\* lines 401-404: the first lookup
FM_Lookup ==
    /\ script = "fm" /\ pc = "fm_lookup"
    /\ Issue("getAgent", m.newAgentId, "")
    /\ \E r \in LookupOutcomes :
         /\ m' = [m EXCEPT !.agentData = queryAgentFromSubgraph(r), !.i = 0]
         /\ Goto(IF queryAgentFromSubgraph(r) THEN "fm_verified" ELSE "fm_retry")
    /\ log' = log
    /\ UNCHANGED <<script, env, mcpServerProcess, client, agent>>

\* lines 405-406: the loop test, then the wait of one retry
FM_RetryWait ==
    /\ script = "fm" /\ pc = "fm_retry"
    /\ IF RetryAllowed(m.i)
         THEN Issue("wait 10000", "", "") /\ Goto("fm_retry_lookup")
         ELSE calls' = calls /\ Goto("fm_verified")
    /\ log' = log
    /\ UNCHANGED <<script, env, mcpServerProcess, client, m, agent>>

\* a retry loop that goes round again after the agent was found
AfterRetry_NoBreak(found) == "fm_retry"

\* a retry whose continuation never runs: the loop neither ends nor goes round
AfterRetry_Pending(found) == "fm_pending"

\* lines 409-410: if (agentData) break;
AfterRetry(found) == IF found THEN "fm_verified" ELSE "fm_retry"

\* lines 407-410: the lookup of one retry; found ends the loop
FM_RetryLookup ==
    /\ script = "fm" /\ pc = "fm_retry_lookup"
    /\ Issue("getAgent", m.newAgentId, "")
    /\ \E r \in LookupOutcomes :
         /\ m' = IF queryAgentFromSubgraph(r) THEN [m EXCEPT !.agentData = TRUE]
                 ELSE [m EXCEPT !.i = @ + 1]
         /\ Goto(AfterRetry(queryAgentFromSubgraph(r)))
    /\ log' = log
    /\ UNCHANGED <<script, env, mcpServerProcess, client, agent>>

\* an agent that never showed up in the subgraph treated as a failed run
NotIndexed_Fatal ==
    Exit(1, {"WARNING: Agent not found in subgraph after multiple retries", "FATAL ERROR"})

\* lines 413-417: the agent never showed up; warn and continue with the test
NotIndexed ==
    /\ log' = log \cup {"WARNING: Agent not found in subgraph after multiple retries"}
    /\ Goto("fm_load")

\* lines 413-420
FM_Verified ==
    /\ script = "fm" /\ pc = "fm_verified"
    /\ IF m.agentData
         THEN /\ log' = log \cup {"Agent successfully verified in subgraph"}
              /\ Goto("fm_load")
         ELSE NotIndexed
    /\ UNCHANGED <<script, env, mcpServerProcess, client, m, agent, calls>>

\* lines 425-434: a failing loadAgent is caught
FM_LoadAgent ==
    /\ script = "fm" /\ pc = "fm_load"
    /\ Issue("loadAgent", m.newAgentId, "")
    /\ \E ok \in BOOLEAN : log' = log \cup (IF ok THEN {} ELSE {"Error loading agent"})
    /\ Goto("fm_feedback")
    /\ UNCHANGED <<script, env, mcpServerProcess, client, m, agent>>

-----------------------------------------------------------------------------
(* fullflow-mcp-subgraph.js: feedback and summary, lines 435-570 *)

\* feedback attempted whether or not a reviewer wallet exists
FeedbackEnabled_Always(l) == TRUE

\* line 439: feedback is attempted only with a reviewer wallet
FeedbackEnabled(l) == l.feedbackSigner # "none"

\* lines 439-443
FM_FeedbackGate ==
    /\ script = "fm" /\ pc = "fm_feedback"
    /\ IF FeedbackEnabled(m)
         THEN Goto("fm_prepare") /\ log' = log
         ELSE Goto("fm_search2") /\ log' = log \cup {"Skipping feedback"}
    /\ UNCHANGED <<script, env, mcpServerProcess, client, m, agent, calls>>

\* an inner catch that submits a failed feedback a second time
FeedbackCaught_RetryOnce ==
    /\ Goto(IF pc = "fm_give" /\ Count("giveFeedback") < 1 THEN "fm_give" ELSE "fm_search2")
    /\ log' = log \cup {"Error in feedback flow"}

\* the inner catch of the feedback flow, lines 506-511: log and go on to step 11
FeedbackCaught == Goto("fm_search2") /\ log' = log \cup {"Error in feedback flow"}

\* lines 446-473
FM_Prepare ==
    /\ script = "fm" /\ pc = "fm_prepare"
    /\ Issue("prepareFeedback", m.newAgentId, "")
    /\ \/ /\ m' = [m EXCEPT !.feedbackFile = TRUE]
          /\ Goto("fm_give") /\ log' = log \cup {"Feedback prepared"}
       \/ FeedbackCaught /\ m' = m
    /\ UNCHANGED <<script, env, mcpServerProcess, client, agent>>

\* lines 474-479: the reviewer wallet is handed over as the signer
FM_Give ==
    /\ script = "fm" /\ pc = "fm_give"
    /\ Issue("giveFeedback", m.newAgentId, m.feedbackSigner)
    /\ \/ /\ m' = [m EXCEPT !.feedback = TRUE]
          /\ Goto("fm_fbwait") /\ log' = log \cup {"Feedback submitted"}
       \/ FeedbackCaught /\ m' = m
    /\ UNCHANGED <<script, env, mcpServerProcess, client, agent>>

\* line 482
FM_FeedbackWait ==
    /\ script = "fm" /\ pc = "fm_fbwait"
    /\ Issue("wait 10000", "", "")
    /\ Goto("fm_queryfb") /\ log' = log
    /\ UNCHANGED <<script, env, mcpServerProcess, client, m, agent>>

\* lines 104-126: queryFeedbackFromSubgraph; one try around both queries, so
\* a failing search skips the reputation summary; the search may also come
\* back without any feedback, which is printed like any other count
FeedbackQueryOutcomes == {"search throws", "summary throws", "empty", "ok"}

\* a query that looks again, after a wait, when it found no feedback
queryFeedbackCalls_Retry(r, id) ==
    IF r = "search throws" THEN <<Call("searchFeedback", id, "")>>
    ELSE IF r = "empty"
      THEN <<Call("searchFeedback", id, ""), Call("wait 10000", "", ""),
             Call("searchFeedback", id, ""), Call("getReputationSummary", id, "")>>
    ELSE <<Call("searchFeedback", id, ""), Call("getReputationSummary", id, "")>>

queryFeedbackCalls(r, id) ==
    IF r = "search throws" THEN <<Call("searchFeedback", id, "")>>
    ELSE <<Call("searchFeedback", id, ""), Call("getReputationSummary", id, "")>>

\* lines 113, 119 and 124: what queryFeedbackFromSubgraph prints
queryFeedbackLog(r) ==
    CASE r = "search throws"  -> {"Feedback query failed"}
      [] r = "summary throws" -> {"Found feedback(s)", "Feedback query failed"}
      [] r = "empty"          -> {"Found 0 feedback(s)", "Reputation Summary"}
      [] r = "ok"             -> {"Found feedback(s)", "Reputation Summary"}

\* line 487
FM_QueryFeedback ==
    /\ script = "fm" /\ pc = "fm_queryfb"
    /\ \E r \in FeedbackQueryOutcomes :
         /\ calls' = calls \o queryFeedbackCalls(r, m.newAgentId)
         /\ log' = log \cup queryFeedbackLog(r)
    /\ Goto("fm_getfb")
    /\ UNCHANGED <<script, env, mcpServerProcess, client, m, agent>>

\* lines 489-504: a failing getFeedback is caught on its own
FM_GetFeedback ==
    /\ script = "fm" /\ pc = "fm_getfb"
    /\ Issue("getFeedback", m.newAgentId, m.feedbackSigner)
    /\ \E ok \in BOOLEAN :
         log' = log \cup (IF ok THEN {"Feedback retrieved directly"}
                          ELSE {"Error retrieving feedback"})
    /\ Goto("fm_search2")
    /\ UNCHANGED <<script, env, mcpServerProcess, client, m, agent>>

\* lines 517-523
FM_Search2 ==
    /\ script = "fm" /\ pc = "fm_search2"
    /\ Issue("searchAgents", "", "")
    /\ \E r \in SearchOutcomes :
         log' = log \cup (IF r = "with" THEN {"found our newly registered agent"} ELSE {})
    /\ Goto("fm_summary")
    /\ UNCHANGED <<script, env, mcpServerProcess, client, m, agent>>

\* lines 525-546: the final summary; main returns
FM_Summary ==
    /\ script = "fm" /\ pc = "fm_summary"
    /\ log' = log \cup {"FULL FLOW TEST COMPLETED SUCCESSFULLY"}
    /\ Goto("fm_returned")
    /\ UNCHANGED <<script, env, mcpServerProcess, client, m, agent, calls>>

\* lines 563-566: main().then(...)
FM_Exit ==
    /\ script = "fm" /\ pc = "fm_returned"
    /\ Exit(0, {"All tests completed successfully"})
    /\ UNCHANGED <<script, env, mcpServerProcess, client, m, agent, calls>>

FMNext ==
    \/ FM_Config \/ FM_Signers \/ FM_Connectivity \/ FM_InitSDK \/ FM_ChainId
    \/ FM_Balance \/ FM_Registries \/ FM_Search1 \/ FM_CreateAgent
    \/ \E kind \in Kinds : FM_ProbeFetch(kind)
    \/ \E kind \in Kinds : FM_ProbeHandle(kind)
    \/ FM_SetMCP \/ FM_SetCaps \/ FM_Register \/ FM_IpfsFetch \/ FM_Wait
    \/ FM_Lookup \/ FM_RetryWait \/ FM_RetryLookup \/ FM_Verified \/ FM_LoadAgent
    \/ FM_FeedbackGate \/ FM_Prepare \/ FM_Give \/ FM_FeedbackWait
    \/ FM_QueryFeedback \/ FM_GetFeedback \/ FM_Search2 \/ FM_Summary \/ FM_Exit

\* one run of fullflow-mcp-subgraph.js
FMInit == Init /\ script = "fm"

\* Every step of main is an await on an external call (fetch, SDK call,
\* timer) followed by synchronous code up to the next await.  Under the
\* assumption that each such call eventually returns or throws, the event
\* loop resumes main whenever a step is pending: weak fairness on FMNext.
FMFairSpec == FMInit /\ [][FMNext]_vars /\ WF_vars(FMNext)

-----------------------------------------------------------------------------
(* part_003, second script (fullflow): main, lines 282-620 *)

\* lines 294-300: both RPC_URL and PRIVATE_KEY are required
FF_Config ==
    /\ script = "ff" /\ pc = "ff_config"
    /\ IF ~env.RPC_URL THEN Fatal("RPC_URL not set")
       ELSE IF env.PRIVATE_KEY = "none" THEN Fatal("PRIVATE_KEY not set")
       ELSE Goto("ff_signer") /\ log' = log
    /\ UNCHANGED <<script, env, mcpServerProcess, client, m, agent, calls>>

\* line 303
FF_Signer ==
    /\ script = "ff" /\ pc = "ff_signer"
    /\ IF WalletThrows(env.PRIVATE_KEY)
         THEN Fatal("invalid private key") /\ m' = m
         ELSE /\ m' = [m EXCEPT !.signer = Address(env.PRIVATE_KEY)]
              /\ Goto("ff_sdk") /\ log' = log
    /\ UNCHANGED <<script, env, mcpServerProcess, client, agent, calls>>

\* lines 310-326
FF_InitSDK ==
    /\ script = "ff" /\ pc = "ff_sdk"
    /\ Issue("new FluidSDK", "", m.signer)
    /\ \/ /\ m' = [m EXCEPT !.sdk = TRUE, !.ipfsClient = env.PINATA_JWT]
          /\ Goto("ff_chain") /\ log' = log
       \/ /\ Fatal("SDK constructor threw") /\ m' = m
    /\ UNCHANGED <<script, env, mcpServerProcess, client, agent>>

\* line 329
FF_ChainId ==
    /\ script = "ff" /\ pc = "ff_chain"
    /\ Issue("chainId", "", "")
    /\ \/ Goto("ff_balance") /\ log' = log
       \/ Fatal("chainId failed")
    /\ UNCHANGED <<script, env, mcpServerProcess, client, m, agent>>

\* lines 333-341: a zero balance is only warned about here
FF_Balance ==
    /\ script = "ff" /\ pc = "ff_balance"
    /\ Issue("getBalance", "", m.signer)
    /\ \/ Fatal("getBalance failed") /\ m' = m
       \/ \E b \in Balances :
            /\ m' = [m EXCEPT !.balance = b]
            /\ Goto("ff_registries")
            /\ log' = log \cup (IF b = "zero" THEN {"WARNING: Your wallet has 0 ETH"} ELSE {})
    /\ UNCHANGED <<script, env, mcpServerProcess, client, agent>>

\* lines 344-360: without registries main returns
FF_Registries ==
    /\ script = "ff" /\ pc = "ff_registries"
    /\ Issue("registries", "", "")
    /\ \/ Goto("ff_create") /\ log' = log
       \/ Goto("ff_returned") /\ log' = log \cup {"Skipping write operations"}
    /\ UNCHANGED <<script, env, mcpServerProcess, client, m, agent>>

\* line 376
FF_CreateAgent ==
    /\ script = "ff" /\ pc = "ff_create"
    /\ Issue("createAgent", "", "")
    /\ \/ /\ agent' = [agent EXCEPT !.created = TRUE]
          /\ Goto("ff_endpoints") /\ log' = log
       \/ Fatal("createAgent failed") /\ agent' = agent
    /\ UNCHANGED <<script, env, mcpServerProcess, client, m>>

\* lines 383-395: setMCP, setA2A, setActive in one try; a throw is only logged
FF_Endpoints ==
    /\ script = "ff" /\ pc = "ff_endpoints"
    /\ \/ /\ calls' = calls \o <<Call("setMCP", "", "")>>
          /\ agent' = agent
          /\ log' = log \cup {"Error configuring agent"}
       \/ /\ calls' = calls \o <<Call("setMCP", "", ""), Call("setA2A", "", "")>>
          /\ agent' = [agent EXCEPT !.mcp = TRUE]
          /\ log' = log \cup {"Error configuring agent"}
       \/ /\ calls' = calls \o <<Call("setMCP", "", ""), Call("setA2A", "", ""),
                                 Call("setActive", "", "")>>
          /\ agent' = [agent EXCEPT !.mcp = TRUE, !.active = TRUE]
          /\ log' = log
    /\ Goto("ff_register")
    /\ UNCHANGED <<script, env, mcpServerProcess, client, m>>

\* a registration attempted whatever the balance
HasGas_Unchecked(b) == TRUE

\* part_003 lines 214 and 401: balance === 0n means no registration
HasGas(b) == b # "zero"

\* lines 401-423: registration is skipped on a zero balance; without an IPFS
\* client, and without an agent id, main returns; a throw is logged
FF_Register ==
    /\ script = "ff" /\ pc = "ff_register"
    /\ IF ~HasGas(m.balance)
         THEN /\ Goto("ff_returned") /\ log' = log \cup {"Cannot register - insufficient balance"}
              /\ UNCHANGED <<m, calls>>
       ELSE IF ~IpfsReady(m)
         THEN /\ Goto("ff_returned")
              /\ log' = log \cup {"Cannot register - IPFS client not configured"}
              /\ UNCHANGED <<m, calls>>
       ELSE /\ Issue("registerIPFS", "", m.signer)
            /\ \/ /\ Goto("ff_returned") /\ log' = log \cup {"Registration failed"}
                  /\ m' = m
               \/ \E rf \in RegistrationFiles :
                    /\ m' = [m EXCEPT !.agentURI = rf.agentURI, !.newAgentId = rf.agentId]
                    /\ IF rf.agentId = "none"
                         THEN Goto("ff_returned")
                              /\ log' = log \cup {"Registration failed - no agent ID returned"}
                         ELSE Goto("ff_wait") /\ log' = log
    /\ UNCHANGED <<script, env, mcpServerProcess, client, agent>>

\* line 427
FF_Wait ==
    /\ script = "ff" /\ pc = "ff_wait"
    /\ Issue("wait 5000", "", "")
    /\ Goto("ff_load") /\ log' = log
    /\ UNCHANGED <<script, env, mcpServerProcess, client, m, agent>>

\* lines 431-438
FF_LoadAgent ==
    /\ script = "ff" /\ pc = "ff_load"
    /\ Issue("loadAgent", m.newAgentId, "")
    /\ \E ok \in BOOLEAN : log' = log \cup (IF ok THEN {} ELSE {"Error loading agent"})
    /\ Goto("ff_prepare")
    /\ UNCHANGED <<script, env, mcpServerProcess, client, m, agent>>

\* the catch of the feedback flow, lines 526-531: log and go on to step 10
FF_FeedbackCaught == Goto("ff_search") /\ log' = log \cup {"Error in feedback flow"}

\* lines 445-465
FF_Prepare ==
    /\ script = "ff" /\ pc = "ff_prepare"
    /\ Issue("prepareFeedback", m.newAgentId, "")
    /\ \/ /\ m' = [m EXCEPT !.feedbackFile = TRUE]
          /\ Goto("ff_give") /\ log' = log \cup {"Feedback prepared"}
       \/ FF_FeedbackCaught /\ m' = m
    /\ UNCHANGED <<script, env, mcpServerProcess, client, agent>>

\* lines 467-475: no signer argument, so the SDK's own signer, the owner, signs
FF_Give ==
    /\ script = "ff" /\ pc = "ff_give"
    /\ \/ /\ calls' = calls \o <<Call("giveFeedback", m.newAgentId, m.signer),
                                 Call("wait 5000", "", "")>>
          /\ m' = [m EXCEPT !.feedback = TRUE]
          /\ Goto("ff_getfb") /\ log' = log \cup {"Feedback submitted"}
       \/ /\ Issue("giveFeedback", m.newAgentId, m.signer)
          /\ FF_FeedbackCaught /\ m' = m
    /\ UNCHANGED <<script, env, mcpServerProcess, client, agent>>

\* a read in a try block of its own: the outcome is logged, the run goes on
FF_Read(at, op, by, next, okTag, errTag) ==
    /\ script = "ff" /\ pc = at
    /\ Issue(op, m.newAgentId, by)
    /\ \E ok \in BOOLEAN : log' = log \cup (IF ok THEN okTag ELSE errTag)
    /\ Goto(next)
    /\ UNCHANGED <<script, env, mcpServerProcess, client, m, agent>>

\* lines 482-494
FF_GetFeedback ==
    FF_Read("ff_getfb", "getFeedback", m.signer, "ff_searchfb", {}, {"Error retrieving feedback"})

\* lines 498-513
FF_SearchFeedback ==
    FF_Read("ff_searchfb", "searchFeedback", "", "ff_reputation", {}, {"Error searching feedback"})

\* lines 517-524
FF_Reputation ==
    FF_Read("ff_reputation", "getReputationSummary", "", "ff_search", {}, {"Error getting reputation"})

\* lines 535-553
FF_Search ==
    /\ script = "ff" /\ pc = "ff_search"
    /\ Issue("searchAgents", "", "")
    /\ Goto("ff_getagent") /\ log' = log
    /\ UNCHANGED <<script, env, mcpServerProcess, client, m, agent>>

\* lines 557-569
FF_GetAgent ==
    /\ script = "ff" /\ pc = "ff_getagent"
    /\ Issue("getAgent", m.newAgentId, "")
    /\ Goto("ff_summary") /\ log' = log
    /\ UNCHANGED <<script, env, mcpServerProcess, client, m, agent>>

\* lines 585-589
FF_Summary ==
    /\ script = "ff" /\ pc = "ff_summary"
    /\ log' = log \cup {"FULL FLOW TEST COMPLETED SUCCESSFULLY"}
    /\ Goto("ff_returned")
    /\ UNCHANGED <<script, env, mcpServerProcess, client, m, agent, calls>>

\* lines 613-616: main().then(...)
FF_Exit ==
    /\ script = "ff" /\ pc = "ff_returned"
    /\ Exit(0, {"Test completed"})
    /\ UNCHANGED <<script, env, mcpServerProcess, client, m, agent, calls>>

FFNext ==
    \/ FF_Config \/ FF_Signer \/ FF_InitSDK \/ FF_ChainId \/ FF_Balance
    \/ FF_Registries \/ FF_CreateAgent \/ FF_Endpoints \/ FF_Register \/ FF_Wait
    \/ FF_LoadAgent \/ FF_Prepare \/ FF_Give \/ FF_GetFeedback \/ FF_SearchFeedback
    \/ FF_Reputation \/ FF_Search \/ FF_GetAgent \/ FF_Summary \/ FF_Exit

-----------------------------------------------------------------------------
(* part_003, first script (test-mcp): main, lines 119-273 *)

\* the catch of main, lines 253-257: the error is printed and main goes on to
\* its finally block
TM_Caught(msg) == Goto("tm_finally") /\ log' = log \cup {"Error", msg}

\* a return that leaves main without running the finally block
TM_Return_NoCleanup(tags) == Goto("tm_returned") /\ log' = log \cup tags

\* a return inside the try block also runs the finally block
TM_Return(tags) == Goto("tm_finally") /\ log' = log \cup tags

\* lines 124-134
TM_Config ==
    /\ script = "tm" /\ pc = "tm_config"
    /\ IF ~env.RPC_URL \/ env.PRIVATE_KEY = "none"
         THEN TM_Caught("RPC_URL and PRIVATE_KEY required") /\ m' = m
       ELSE IF WalletThrows(env.PRIVATE_KEY)
         THEN TM_Caught("invalid private key") /\ m' = m
       ELSE /\ m' = [m EXCEPT !.signer = Address(env.PRIVATE_KEY)]
            /\ Goto("tm_compile") /\ log' = log
    /\ UNCHANGED <<script, env, mcpServerProcess, client, agent, calls>>

\* lines 138-147: a failed compilation returns from main
TM_Compile ==
    /\ script = "tm" /\ pc = "tm_compile"
    /\ Issue("execSync tsc", "", "")
    /\ \/ Goto("tm_start") /\ log' = log
       \/ TM_Return({"Failed to compile MCP server"})
    /\ UNCHANGED <<script, env, mcpServerProcess, client, m, agent>>

\* lines 13-29: startMCPServer spawns the server and waits two seconds; when
\* spawn itself throws, mcpServerProcess stays null and main catches the error
TM_StartServer ==
    /\ script = "tm" /\ pc = "tm_start"
    /\ \/ /\ calls' = calls \o <<Call("spawn", "", ""), Call("wait 2000", "", "")>>
          /\ mcpServerProcess' = "running"
          /\ Goto("tm_connect") /\ log' = log
       \/ /\ Issue("spawn", "", "")
          /\ mcpServerProcess' = mcpServerProcess
          /\ TM_Caught("spawn failed")
    /\ UNCHANGED <<script, env, client, m, agent>>

\* lines 36-52: a failed connect is caught, testMCPConnection gives null
TM_Connect ==
    /\ script = "tm" /\ pc = "tm_connect"
    /\ Issue("client.connect", "", "")
    /\ \/ client' = "connected" /\ Goto("tm_requests") /\ log' = log
       \/ client' = client /\ Goto("tm_sdk") /\ log' = log \cup {"MCP connection failed"}
    /\ UNCHANGED <<script, env, mcpServerProcess, m, agent>>

\* the six requests of testMCPConnection in order, lines 55-102
ClientRequests == <<"listTools", "listPrompts", "listResources",
                    "callTool", "getPrompt", "readResource">>

CallsOf(ops) == [j \in 1..Len(ops) |-> Call(ops[j], "", "")]

\* lines 55-116: the requests run in order; the first that throws ends the
\* function in its catch, which gives null and does not close the client;
\* after the last one the client is closed and the capabilities are returned
TM_Requests ==
    /\ script = "tm" /\ pc = "tm_requests"
    /\ \/ \E n \in 1..Len(ClientRequests) :
            /\ calls' = calls \o CallsOf(SubSeq(ClientRequests, 1, n))
            /\ client' = client /\ m' = m
            /\ log' = log \cup {"MCP connection failed"}
       \/ /\ calls' = calls \o CallsOf(ClientRequests) \o <<Call("client.close", "", "")>>
          /\ client' = "closed"
          /\ m' = [m EXCEPT !.mcpCapabilities = TRUE]
          /\ log' = log \cup {"MCP client closed"}
       \/ /\ calls' = calls \o CallsOf(ClientRequests) \o <<Call("client.close", "", "")>>
          /\ client' = client /\ m' = m
          /\ log' = log \cup {"MCP connection failed"}
    /\ Goto("tm_sdk")
    /\ UNCHANGED <<script, env, mcpServerProcess, agent>>

\* lines 155-170
TM_InitSDK ==
    /\ script = "tm" /\ pc = "tm_sdk"
    /\ \/ /\ Issue("new FluidSDK", "", m.signer)
          /\ TM_Caught("SDK constructor threw") /\ m' = m
       \/ /\ calls' = calls \o <<Call("new FluidSDK", "", m.signer), Call("chainId", "", "")>>
          /\ m' = [m EXCEPT !.sdk = TRUE, !.ipfsClient = env.PINATA_JWT]
          /\ \/ Goto("tm_registries") /\ log' = log
             \/ TM_Caught("chainId failed")
    /\ UNCHANGED <<script, env, mcpServerProcess, client, agent>>

\* lines 172-176: without registries main returns
TM_Registries ==
    /\ script = "tm" /\ pc = "tm_registries"
    /\ Issue("registries", "", "")
    /\ \/ Goto("tm_create") /\ log' = log
       \/ TM_Return({"No registries configured"})
    /\ UNCHANGED <<script, env, mcpServerProcess, client, m, agent>>

\* lines 180-200: createAgent, setMCP and setActive; a throw goes to the catch
TM_CreateAgent ==
    /\ script = "tm" /\ pc = "tm_create"
    /\ \/ /\ Issue("createAgent", "", "")
          /\ agent' = agent /\ TM_Caught("createAgent failed")
       \/ /\ calls' = calls \o <<Call("createAgent", "", ""), Call("setMCP", "", "")>>
          /\ agent' = [agent EXCEPT !.created = TRUE]
          /\ TM_Caught("setMCP failed")
       \/ /\ calls' = calls \o <<Call("createAgent", "", ""), Call("setMCP", "", ""),
                                 Call("setActive", "", "")>>
          /\ agent' = [agent EXCEPT !.created = TRUE, !.mcp = TRUE, !.active = TRUE]
          /\ Goto("tm_register") /\ log' = log
    /\ UNCHANGED <<script, env, mcpServerProcess, client, m>>

\* lines 205-226: no registration without an IPFS client or with a zero balance
TM_Register ==
    /\ script = "tm" /\ pc = "tm_register"
    /\ IF ~IpfsReady(m)
         THEN TM_Return({"No IPFS client configured"}) /\ UNCHANGED <<m, calls>>
         ELSE \/ /\ Issue("getBalance", "", m.signer)
                 /\ TM_Caught("getBalance failed") /\ m' = m
              \/ \E b \in Balances :
                   IF ~HasGas(b)
                     THEN /\ Issue("getBalance", "", m.signer)
                          /\ m' = [m EXCEPT !.balance = b]
                          /\ TM_Return({"No balance for gas fees"})
                     ELSE /\ calls' = calls \o <<Call("getBalance", "", m.signer),
                                                 Call("registerIPFS", "", m.signer)>>
                          /\ \/ /\ m' = [m EXCEPT !.balance = b]
                                /\ TM_Caught("registerIPFS failed")
                             \/ \E rf \in RegistrationFiles :
                                  /\ m' = [m EXCEPT !.balance = b, !.agentURI = rf.agentURI,
                                                    !.newAgentId = rf.agentId]
                                  /\ Goto("tm_verify")
                                  /\ log' = log \cup {"Agent registered"}
    /\ UNCHANGED <<script, env, mcpServerProcess, client, agent>>

\* lines 230-251: loadAgent only with an agent id; its throw goes to the catch
TM_Verify ==
    /\ script = "tm" /\ pc = "tm_verify"
    /\ IF m.newAgentId = "none"
         THEN calls' = calls /\ TM_Return({"MCP INTEGRATION TEST COMPLETED"})
         ELSE /\ Issue("loadAgent", m.newAgentId, "")
              /\ \/ TM_Return({"MCP INTEGRATION TEST COMPLETED"})
                 \/ TM_Caught("loadAgent failed")
    /\ UNCHANGED <<script, env, mcpServerProcess, client, m, agent>>

\* lines 258-264: the finally block kills the server when there is one
TM_Finally ==
    /\ script = "tm" /\ pc = "tm_finally"
    /\ IF mcpServerProcess # "none"
         THEN Issue("mcpServerProcess.kill", "", "") /\ mcpServerProcess' = "killed"
         ELSE UNCHANGED <<calls, mcpServerProcess>>
    /\ Goto("tm_returned") /\ log' = log
    /\ UNCHANGED <<script, env, client, m, agent>>

\* lines 267-270: main().then(...) - main never rejects
TM_Exit ==
    /\ script = "tm" /\ pc = "tm_returned"
    /\ Exit(0, {"Test completed"})
    /\ UNCHANGED <<script, env, mcpServerProcess, client, m, agent, calls>>

TMNext ==
    \/ TM_Config \/ TM_Compile \/ TM_StartServer \/ TM_Connect \/ TM_Requests
    \/ TM_InitSDK \/ TM_Registries \/ TM_CreateAgent \/ TM_Register \/ TM_Verify
    \/ TM_Finally \/ TM_Exit

-----------------------------------------------------------------------------
(* part_000 (feedback submission): mainnam, lines 8-156 *)

\* lines 153-156: mainnam().catch(...) prints the error and exits with 1
FB_Rejected(msg) == Exit(1, {"Error in testfeedback script", msg})

\* lines 14-25: RPC_URL and FEEDBACK_PRIVATE_KEY are required; the wallet is
\* made from FEEDBACK_PRIVATE_KEY
FB_Config ==
    /\ script = "fb" /\ pc = "fb_config"
    /\ IF ~env.RPC_URL THEN FB_Rejected("RPC_URL not set") /\ m' = m
       ELSE IF env.FEEDBACK_PRIVATE_KEY = "none"
         THEN FB_Rejected("FEEDBACK_PRIVATE_KEY not set") /\ m' = m
       ELSE IF WalletThrows(env.FEEDBACK_PRIVATE_KEY)
         THEN FB_Rejected("invalid private key") /\ m' = m
       ELSE /\ m' = [m EXCEPT !.signer = Address(env.FEEDBACK_PRIVATE_KEY)]
            /\ Goto("fb_sdk") /\ log' = log
    /\ UNCHANGED <<script, env, mcpServerProcess, client, agent, calls>>

\* lines 26-41 and 74
FB_InitSDK ==
    /\ script = "fb" /\ pc = "fb_sdk"
    /\ \/ /\ Issue("new FluidSDK", "", m.signer)
          /\ FB_Rejected("SDK constructor threw") /\ m' = m
       \/ /\ calls' = calls \o <<Call("new FluidSDK", "", m.signer), Call("chainId", "", "")>>
          /\ m' = [m EXCEPT !.sdk = TRUE, !.ipfsClient = env.PINATA_JWT]
          /\ \/ Goto("fb_give") /\ log' = log
             \/ FB_Rejected("chainId failed")
    /\ UNCHANGED <<script, env, mcpServerProcess, client, agent>>

\* lines 75-115: a prepared feedback file for agent 11155111:1555 is submitted
\* by the SDK's signer; a throw rejects mainnam
FB_Give ==
    /\ script = "fb" /\ pc = "fb_give"
    /\ \/ /\ Issue("giveFeedback", "11155111:1555", m.signer)
          /\ FB_Rejected("giveFeedback failed") /\ m' = m
       \/ /\ calls' = calls \o <<Call("giveFeedback", "11155111:1555", m.signer),
                                 Call("wait 10000", "", "")>>
          /\ m' = [m EXCEPT !.newAgentId = "11155111:1555", !.feedback = TRUE]
          /\ Goto("fb_queryfb") /\ log' = log \cup {"Feedback submitted"}
    /\ UNCHANGED <<script, env, mcpServerProcess, client, agent>>

\* lines 43-70 and 122: the same queryFeedbackFromSubgraph, one try block
FB_QueryFeedback ==
    /\ script = "fb" /\ pc = "fb_queryfb"
    /\ \E r \in FeedbackQueryOutcomes :
         /\ calls' = calls \o queryFeedbackCalls(r, m.newAgentId)
         /\ log' = log \cup queryFeedbackLog(r)
    /\ Goto("fb_getfb")
    /\ UNCHANGED <<script, env, mcpServerProcess, client, m, agent>>

\* lines 125-147
FB_GetFeedback ==
    /\ script = "fb" /\ pc = "fb_getfb"
    /\ Issue("getFeedback", m.newAgentId, m.signer)
    /\ \E ok \in BOOLEAN :
         log' = log \cup (IF ok THEN {"Feedback retrieved directly"}
                          ELSE {"Error retrieving feedback"})
    /\ Goto("fb_returned")
    /\ UNCHANGED <<script, env, mcpServerProcess, client, m, agent>>

\* mainnam resolved and nothing is pending: the process ends with status 0
FB_End ==
    /\ script = "fb" /\ pc = "fb_returned"
    /\ Exit(0, {})
    /\ UNCHANGED <<script, env, mcpServerProcess, client, m, agent, calls>>

FBNext == FB_Config \/ FB_InitSDK \/ FB_Give \/ FB_QueryFeedback \/ FB_GetFeedback \/ FB_End

-----------------------------------------------------------------------------
(* part_001 (basic suite): main, lines 8-215 *)

\* lines 206-212: the catch of main prints the error and exits with 1
BS_Caught(msg) == Exit(1, {"Error", msg})

\* sdk.isReadOnly, lines 44 and 162: the SDK was given no signer
isReadOnly(l) == l.signer = "none"

\* a write block entered whether or not the SDK has a signer
WritesEnabled_Always(l) == TRUE

\* line 162: if (!sdk.isReadOnly)
WritesEnabled(l) == ~isReadOnly(l)

\* lines 13-48: RPC_URL has a default and PRIVATE_KEY is optional
BS_Init ==
    /\ script = "bs" /\ pc = "bs_init"
    /\ IF WalletThrows(env.PRIVATE_KEY)
         THEN BS_Caught("invalid private key") /\ UNCHANGED <<m, calls>>
         ELSE /\ Issue("new FluidSDK", "", Address(env.PRIVATE_KEY))
              /\ \/ BS_Caught("SDK constructor threw") /\ m' = m
                 \/ /\ m' = [m EXCEPT !.signer = Address(env.PRIVATE_KEY), !.sdk = TRUE]
                    /\ Goto("bs_chain")
                    /\ log' = log \cup (IF env.PRIVATE_KEY = "none"
                                          THEN {"running in read-only mode"} ELSE {})
    /\ UNCHANGED <<script, env, mcpServerProcess, client, agent>>

\* lines 40-57: chainId, registries and createAgent; a throw goes to the catch
BS_Chain ==
    /\ script = "bs" /\ pc = "bs_chain"
    /\ \/ /\ Issue("chainId", "", "")
          /\ BS_Caught("chainId failed") /\ agent' = agent
       \/ /\ calls' = calls \o <<Call("chainId", "", ""), Call("registries", "", ""),
                                 Call("createAgent", "", "")>>
          /\ \/ BS_Caught("createAgent failed") /\ agent' = agent
             \/ /\ agent' = [agent EXCEPT !.created = TRUE]
                /\ Goto("bs_reads") /\ log' = log
    /\ UNCHANGED <<script, env, mcpServerProcess, client, m>>

\* the reads of tests 2-7 in order; those marked need TEST_AGENT_ID
ReadTests == <<[op |-> "searchAgents", needsId |-> FALSE],
               [op |-> "getAgent", needsId |-> TRUE],
               [op |-> "loadAgent", needsId |-> TRUE],
               [op |-> "searchAgentsByReputation", needsId |-> FALSE],
               [op |-> "searchFeedback", needsId |-> TRUE],
               [op |-> "getReputationSummary", needsId |-> TRUE]>>

\* lines 60-159: each read has its own try block, and is skipped without
\* TEST_AGENT_ID when it needs one
BS_Read ==
    /\ script = "bs" /\ pc = "bs_reads" /\ m.i < Len(ReadTests)
    /\ LET t == ReadTests[m.i + 1] IN
         IF t.needsId /\ ~env.TEST_AGENT_ID
           THEN calls' = calls /\ log' = log
           ELSE /\ Issue(t.op, IF t.needsId THEN AgentId ELSE "", "")
                /\ \E ok \in BOOLEAN : log' = log \cup (IF ok THEN {} ELSE {"read failed"})
    /\ m' = [m EXCEPT !.i = @ + 1]
    /\ Goto("bs_reads")
    /\ UNCHANGED <<script, env, mcpServerProcess, client, agent>>

\* lines 162-204: with a signer and TEST_AGENT_ID the feedback file is
\* prepared (a throw goes to the catch); giveFeedback is commented out
BS_Write ==
    /\ script = "bs" /\ pc = "bs_reads" /\ m.i = Len(ReadTests)
    /\ IF WritesEnabled(m) /\ env.TEST_AGENT_ID
         THEN /\ Issue("prepareFeedback", AgentId, "")
              /\ \/ /\ m' = [m EXCEPT !.feedbackFile = TRUE]
                    /\ Goto("bs_returned") /\ log' = log \cup {"Feedback prepared"}
                 \/ BS_Caught("prepareFeedback failed") /\ m' = m
         ELSE /\ Goto("bs_returned") /\ log' = log
              /\ UNCHANGED <<m, calls>>
    /\ UNCHANGED <<script, env, mcpServerProcess, client, agent>>

\* line 215: main() resolved and nothing is pending: the process ends with 0
BS_End ==
    /\ script = "bs" /\ pc = "bs_returned"
    /\ Exit(0, {"Test Suite Completed"})
    /\ UNCHANGED <<script, env, mcpServerProcess, client, m, agent, calls>>

BSNext == BS_Init \/ BS_Chain \/ BS_Read \/ BS_Write \/ BS_End

-----------------------------------------------------------------------------

Next == FMNext \/ FFNext \/ TMNext \/ FBNext \/ BSNext

Spec == Init /\ [][Next]_vars

-----------------------------------------------------------------------------
(* mcp-server.ts: the local MCP test server *)

\* a request without params.arguments
NoArgs == [defined |-> FALSE]

\* the handlers' results: a returned { content: [{ type: "text", text }] }, a
\* returned list, prompt or resource, or an Error thrown out of the handler.
\* A template string is the tuple of its pieces.
TextResult(t) == [kind |-> "content", text |-> t]

Thrown(msg) == [kind |-> "thrown", message |-> msg]

\* a tools/list answer that advertises a tool the dispatcher does not know
ListTools_Undispatched ==
    <<[name |-> "calculate"], [name |-> "get_weather"], [name |-> "echo"],
      [name |-> "ping"]>>

\* lines 36-92: the tools/list handler
ListTools == <<[name |-> "calculate"], [name |-> "get_weather"], [name |-> "echo"]>>

\* lines 193-225: the prompts/list handler
ListPrompts == <<[name |-> "greeting"], [name |-> "code_review"]>>

\* lines 275-298: the resources/list handler
ListResources ==
    <<[uri |-> "fluidsdk://config", name |-> "SDK Configuration"],
      [uri |-> "fluidsdk://status", name |-> "Server Status"],
      [uri |-> "fluidsdk://docs/quickstart", name |-> "Quick Start Guide"]>>

\* a / b of two numbers: the integer when b divides a, else the fraction
Quotient(a, b) == IF a % b = 0 THEN a \div b ELSE <<a, "/", b>>

\* lines 98-144: case "calculate"
Calculate(args) ==
    CASE args.operation = "add" ->
           TextResult(<<"Result:", args.a, "add", args.b, "=", args.a + args.b>>)
      [] args.operation = "subtract" ->
           TextResult(<<"Result:", args.a, "subtract", args.b, "=", args.a - args.b>>)
      [] args.operation = "multiply" ->
           TextResult(<<"Result:", args.a, "multiply", args.b, "=", args.a * args.b>>)
      [] args.operation = "divide" ->
           IF args.b = 0 THEN TextResult(<<"Error: Division by zero">>)
           ELSE TextResult(<<"Result:", args.a, "divide", args.b, "=",
                             Quotient(args.a, args.b)>>)
      [] OTHER -> TextResult(<<"Error: Unknown operation", args.operation>>)

\* lines 94-187: the tools/call handler; destructuring absent arguments throws
\* a TypeError, an unknown name is answered with an error text
CallTool(name, args, rnd) ==
    CASE name = "calculate" ->
           IF args.defined THEN Calculate(args) ELSE Thrown(<<"TypeError">>)
      [] name = "get_weather" ->
           IF args.defined
             THEN TextResult(<<"weather", args.location, rnd.temperature,
                               rnd.condition, rnd.humidity>>)
             ELSE Thrown(<<"TypeError">>)
      [] name = "echo" ->
           IF args.defined THEN TextResult(<<"Echo:", args.message>>)
           ELSE Thrown(<<"TypeError">>)
      [] OTHER -> TextResult(<<"Error: Unknown tool", name>>)

\* args?.field || fallback
ArgOr(args, field, fallback) ==
    IF args.defined /\ ~Falsy(args[field]) THEN args[field] ELSE fallback

\* lines 227-269: the prompts/get handler
GetPrompt(name, args) ==
    CASE name = "greeting" ->
           [kind |-> "messages", role |-> "user",
            text |-> <<"Hello", ArgOr(args, "name", "User")>>]
      [] name = "code_review" ->
           [kind |-> "messages", role |-> "user",
            text |-> <<"Please review", ArgOr(args, "language", "JavaScript"),
                       ArgOr(args, "complexity", "medium")>>]
      [] OTHER -> Thrown(<<"Unknown prompt:", name>>)

\* lines 300-381: the resources/read handler
ReadResource(uri) ==
    CASE uri = "fluidsdk://config" ->
           [kind |-> "contents", uri |-> uri, mimeType |-> "application/json",
            text |-> "config"]
      [] uri = "fluidsdk://status" ->
           [kind |-> "contents", uri |-> uri, mimeType |-> "application/json",
            text |-> "status"]
      [] uri = "fluidsdk://docs/quickstart" ->
           [kind |-> "contents", uri |-> uri, mimeType |-> "text/markdown",
            text |-> "quickstart"]
      [] OTHER -> Thrown(<<"Unknown resource:", uri>>)

\* the names and uris the three list handlers return
Advertised(list, field) == {list[k][field] : k \in DOMAIN list}

\* the names a client may send: every advertised name and uri, under every
\* method, and some that no list returns
RequestNames ==
    Advertised(ListTools, "name") \cup Advertised(ListPrompts, "name")
      \cup Advertised(ListResources, "uri")
      \cup {"Calculate", "status", ""}

\* the arguments a client may send with a tool call
ToolArgs(name) ==
    {NoArgs} \cup
    CASE name = "calculate" ->
           [defined : {TRUE},
            operation : {"add", "subtract", "multiply", "divide", "power"},
            a : {0, 42}, b : {0, 58}]
      [] name = "get_weather" -> [defined : {TRUE}, location : {"Pune"}]
      [] OTHER -> [defined : {TRUE}, message : {"hello"}]

\* the arguments a client may send with a prompt request
PromptArgs ==
    {NoArgs} \cup
    [defined : {TRUE}, name : {"undefined", "", "FluidSDK Tester"},
     language : {"undefined", "TypeScript"}, complexity : {"undefined", "high"}]

\* the draws of Math.random() in get_weather, lines 150-152: the ends of the
\* temperature and humidity ranges and every condition
Randoms == [temperature : {10, 39},
            condition : {"Sunny", "Cloudy", "Rainy", "Windy"},
            humidity : {40, 99}]

\* the number of requests one run of the server answers
MaxRequests == 2

\* the server process before main runs
ServerInit ==
    /\ script = "mcp-server"
    /\ env = [RPC_URL |-> FALSE, PRIVATE_KEY |-> "none", FEEDBACK_PRIVATE_KEY |-> "none",
              PINATA_JWT |-> FALSE, TEST_AGENT_ID |-> FALSE]
    /\ pc = "srv_main"
    /\ m = [request |-> [method |-> "none", name |-> "", args |-> NoArgs],
            response |-> [kind |-> "none"]]
    /\ agent = Agent0
    /\ calls = <<>>
    /\ log = {}
    /\ exitCode = -1
    /\ mcpServerProcess = "none"
    /\ client = "none"

\* lines 387-401: main connects the stdio transport; a failure exits with 1
SRV_Main ==
    /\ script = "mcp-server" /\ pc = "srv_main"
    /\ \/ /\ mcpServerProcess' = "running"
          /\ Goto("srv_listening")
          /\ log' = log \cup {"Server ready for connections"}
       \/ /\ mcpServerProcess' = mcpServerProcess
          /\ Exit(1, {"Fatal error"})
    /\ UNCHANGED <<script, env, client, m, agent, calls>>

\* the server has answered `request` with `response`
Answer(request, response) ==
    /\ m' = [request |-> request, response |-> response]
    /\ calls' = Append(calls, Call(request.method, request.name, ""))
    /\ Goto("srv_listening") /\ log' = log
    /\ UNCHANGED <<script, env, mcpServerProcess, client, agent>>

\* lines 36, 193, 275: the three list handlers
SRV_List ==
    /\ script = "mcp-server" /\ pc = "srv_listening" /\ Len(calls) < MaxRequests
    /\ \/ Answer([method |-> "tools/list", name |-> "", args |-> NoArgs],
                 [kind |-> "list", items |-> ListTools])
       \/ Answer([method |-> "prompts/list", name |-> "", args |-> NoArgs],
                 [kind |-> "list", items |-> ListPrompts])
       \/ Answer([method |-> "resources/list", name |-> "", args |-> NoArgs],
                 [kind |-> "list", items |-> ListResources])

\* line 94: a tools/call request
SRV_CallTool ==
    /\ script = "mcp-server" /\ pc = "srv_listening" /\ Len(calls) < MaxRequests
    /\ \E name \in RequestNames : \E args \in ToolArgs(name) : \E rnd \in Randoms :
         Answer([method |-> "tools/call", name |-> name, args |-> args],
                CallTool(name, args, rnd))

\* line 227: a prompts/get request
SRV_GetPrompt ==
    /\ script = "mcp-server" /\ pc = "srv_listening" /\ Len(calls) < MaxRequests
    /\ \E name \in RequestNames : \E args \in PromptArgs :
         Answer([method |-> "prompts/get", name |-> name, args |-> args],
                GetPrompt(name, args))

\* line 300: a resources/read request; its params carry the uri only
SRV_ReadResource ==
    /\ script = "mcp-server" /\ pc = "srv_listening" /\ Len(calls) < MaxRequests
    /\ \E uri \in RequestNames :
         Answer([method |-> "resources/read", name |-> uri, args |-> NoArgs],
                ReadResource(uri))

ServerNext ==
    \/ SRV_Main \/ SRV_List \/ SRV_CallTool \/ SRV_GetPrompt \/ SRV_ReadResource

ServerSpec == ServerInit /\ [][ServerNext]_vars

-----------------------------------------------------------------------------
(* Properties *)

Exited == pc = "exited"

Logged(tag) == tag \in log

Called(op) == \E k \in DOMAIN calls : calls[k].op = op

SummaryPrinted == Logged("FULL FLOW TEST COMPLETED SUCCESSFULLY")

\* the verification step of fullflow-mcp-subgraph.js has run to its end
VerificationOver ==
    \/ pc = "fm_verified"
    \/ Logged("Agent successfully verified in subgraph")
    \/ Logged("WARNING: Agent not found in subgraph after multiple retries")

\* C1: in fullflow-mcp-subgraph.js sdk.getAgent is never called more than 4
\* times, and once the verification step is over it was called at least once,
\* whatever the subgraph answered.
C1_LookupCount ==
    script = "fm" =>
        /\ Count("getAgent") <= 4
        /\ VerificationOver => Count("getAgent") >= 1

\* C1 witness: a run whose four lookups all failed and that went on to the end
C1_Witness ==
    /\ script = "fm" /\ Exited /\ exitCode = 0
    /\ Count("getAgent") = 4
    /\ Logged("WARNING: Agent not found in subgraph after multiple retries")

\* C2: with PRIVATE_KEY set and no FEEDBACK_PRIVATE_KEY, neither
\* fullflow-mcp-subgraph.js nor the single-signer full-flow script ever calls
\* sdk.giveFeedback.
C2_NoSelfSubmission ==
    script \in {"fm", "ff"} /\ env.PRIVATE_KEY # "none" /\ env.FEEDBACK_PRIVATE_KEY = "none"
        => ~Called("giveFeedback")

\* C3: in fullflow-mcp-subgraph.js every giveFeedback call is signed by a
\* reviewer identity other than the agent owner's.
C3_ReviewerDistinct ==
    script = "fm" =>
        \A k \in DOMAIN calls :
            calls[k].op = "giveFeedback" => calls[k].by # Address(env.PRIVATE_KEY)

\* the environment variable a script makes its signer from
SignerKey == IF script = "fb" THEN env.FEEDBACK_PRIVATE_KEY ELSE env.PRIVATE_KEY

\* C4: a script whose signer key is missing from the environment never calls
\* agent.registerIPFS or sdk.giveFeedback.
C4_NoSignerNoWrite ==
    SignerKey = "none" => ~Called("registerIPFS") /\ ~Called("giveFeedback")

\* C4 witness: fullflow-mcp-subgraph.js stopped on the missing PRIVATE_KEY
C4_Witness ==
    /\ script = "fm" /\ env.RPC_URL /\ env.PRIVATE_KEY = "none"
    /\ Exited /\ exitCode = 1 /\ Logged("PRIVATE_KEY not set")

ProbeIssued(kind) == \E k \in DOMAIN calls : calls[k] = Call("fetch /mcp", kind, "")

\* the capability lists attached to the agent are the ones collected
Attached ==
    /\ agent.mcpTools = m.mcpTools
    /\ agent.mcpPrompts = m.mcpPrompts
    /\ agent.mcpResources = m.mcpResources

\* handling the answer for `kind` keeps a full answer's entries, leaves the
\* other two lists alone and goes on to the next request
ProbeStepIndependent(kind) ==
    /\ pc' = (CASE kind = "tools" -> "fm_probe_prompts"
                [] kind = "prompts" -> "fm_probe_resources"
                [] kind = "resources" -> "fm_setmcp")
    /\ m.resp.status = "ok" =>
         /\ Len(m'[ListField(kind)]) = Len(m.resp.entries)
         /\ \A j \in 1..Len(m.resp.entries) :
              m'[ListField(kind)][j] \in {m.resp.entries[j].name, m.resp.entries[j].uri}
    /\ \A other \in Kinds \ {kind} : m'[ListField(other)] = m[ListField(other)]

\* C5: in the capability probe all three list requests are issued before
\* setMCP, the answer to one never changes what was collected for the others
\* or stops the next request, and what was collected is what the agent carries
\* once it is marked active.
C5_ProbeIndependent ==
    /\ [](script = "fm" /\ Called("setMCP") => \A kind \in Kinds : ProbeIssued(kind))
    /\ [](script = "fm" /\ Called("setActive") => Attached)
    /\ [][\A kind \in Kinds :
            script = "fm" /\ pc = HandlePc(kind) => ProbeStepIndependent(kind)]_vars

\* C5 witness: prompts/list failed, yet tools and resources are on the agent
C5_Witness ==
    /\ script = "fm" /\ pc = "fm_register"
    /\ Logged(WarnTag("prompts"))
    /\ agent.mcpTools # <<>> /\ agent.mcpPrompts = <<>> /\ agent.mcpResources # <<>>

\* C6: in the capability probe a response without a result field, a non-2xx
\* status and a network failure each leave the list of that kind empty, print
\* the warning of that kind and do not end the run.
C6_DegradationWarned ==
    [][\A kind \in Kinds :
         script = "fm" /\ pc = HandlePc(kind)
                       /\ m.resp.status \in {"noresult", "non2xx", "neterr"}
           => /\ m'[ListField(kind)] = <<>>
              /\ WarnTag(kind) \in log'
              /\ pc' # "exited"]_vars

\* C7: fullflow-mcp-subgraph.js prints its success summary and exits with
\* status 0 only when no error occurred in the feedback flow: a started
\* feedback flow has then been submitted.
C7_ExitZeroOnlyOnSuccess ==
    script = "fm" /\ (exitCode = 0 \/ SummaryPrinted) =>
        /\ ~Logged("Error in feedback flow")
        /\ Called("prepareFeedback") => m.feedback

\* C8: in the four scripts that need a signer, a missing RPC_URL or a missing
\* signer key means the SDK is never constructed and the process does not end
\* with status 0.
C8_ConfigAbortsNonZero ==
    script \in {"fm", "ff", "tm", "fb"} /\ (~env.RPC_URL \/ SignerKey = "none") =>
        /\ ~Called("new FluidSDK")
        /\ Exited => exitCode # 0

C10_NoIpfsNoRegistration ==
    script = "fm" /\ ~env.PINATA_JWT =>
        /\ ~Called("registerIPFS")
        /\ ~SummaryPrinted /\ pc # "fm_returned"
        /\ Exited => exitCode = 1

\* C10 witness: the run got as far as step 5 and stopped on the missing client
C10_Witness ==
    /\ script = "fm" /\ ~env.PINATA_JWT /\ Exited /\ exitCode = 1
    /\ Logged("IPFS client not configured") /\ Called("setActive")

-----------------------------------------------------------------------------

\* position in `calls` of the first call of `op`, 0 when there is none
First(op) ==
    IF Called(op) THEN CHOOSE k \in DOMAIN calls :
                         /\ calls[k].op = op
                         /\ \A j \in 1..(k - 1) : calls[j].op # op
    ELSE 0

\* C11: in fullflow-mcp-subgraph.js a zero balance of the owner wallet or of
\* the configured feedback wallet ends the run with exit status 1 before any
\* agent is created or registered, and registerIPFS is never called before
\* the balances of all configured wallets were read and found non-zero.
C11_BalancePrecheck ==
    script = "fm" =>
        /\ m.balance = "zero" \/ m.feedbackBalance = "zero" =>
              /\ Exited /\ exitCode = 1
              /\ ~Called("createAgent") /\ ~Called("registerIPFS")
        /\ Called("registerIPFS") =>
              /\ \E k \in 1..(First("registerIPFS") - 1) :
                    calls[k] = Call("getBalance", "", m.signer)
              /\ m.balance = "positive"
              /\ m.feedbackSigner # "none" =>
                    /\ m.feedbackBalance = "positive"
                    /\ \E k \in 1..(First("registerIPFS") - 1) :
                          calls[k] = Call("getBalance", "", m.feedbackSigner)

\* C11 witness: the owner is funded, the feedback wallet is empty, and the run
\* stopped there
C11_Witness ==
    /\ script = "fm" /\ Exited /\ exitCode = 1
    /\ m.balance = "positive" /\ m.feedbackBalance = "zero"
    /\ Logged("Insufficient balance in feedback wallet")

\* the lifecycle steps that follow the chain-id check
LaterSteps == {"getBalance", "registries", "searchAgents", "createAgent", "fetch /mcp",
               "setMCP", "setActive", "registerIPFS", "getAgent", "loadAgent",
               "prepareFeedback", "giveFeedback"}

\* C12: in fullflow-mcp-subgraph.js a failed sdk.chainId() ends the run with
\* exit status 1, and chainId stays the last call the run ever made: no
\* createAgent, registerIPFS, getAgent, giveFeedback or any other later step.
C12_ChainIdFatal ==
    script = "fm" /\ Logged("chainId failed") =>
        /\ Exited /\ exitCode = 1
        /\ calls[Len(calls)].op = "chainId"
        /\ \A op \in LaterSteps : ~Called(op)

\* C12 witness: the SDK was constructed and its chainId() was rejected
C12_Witness ==
    /\ script = "fm" /\ Logged("chainId failed") /\ Exited
    /\ Called("new FluidSDK") /\ Called("chainId")

\* the first lookup and all three retries of fullflow-mcp-subgraph.js came
\* back without the agent
AbsentAfterRetries == script = "fm" /\ Count("getAgent") = 4 /\ ~m.agentData

\* C13: in fullflow-mcp-subgraph.js an agent still absent from the subgraph
\* after the first lookup and all retries never makes the run fail: the run
\* never exits with status 1 from then on, and when it has ended it has
\* printed the warning, tried loadAgent, entered the feedback step when a
\* feedback wallet is configured, and exited with status 0.
C13_AbsenceIsWarning ==
    AbsentAfterRetries =>
        /\ exitCode # 1
        /\ Exited =>
             /\ exitCode = 0
             /\ Logged("WARNING: Agent not found in subgraph after multiple retries")
             /\ Called("loadAgent")
             /\ m.feedbackSigner # "none" => Called("prepareFeedback")
             /\ m.feedbackSigner = "none" => Logged("Skipping feedback")

\* C13 witness: never indexed, yet feedback was submitted and the run ended
\* with status 0
C13_Witness ==
    /\ AbsentAfterRetries /\ Exited /\ exitCode = 0
    /\ m.feedback /\ Called("getFeedback")

PrepareRejected == Called("prepareFeedback") /\ ~m.feedbackFile

\* C16: in fullflow-mcp-subgraph.js, the full-flow script and the basic suite
\* a rejection thrown by sdk.prepareFeedback is never followed by giveFeedback
\* and never ends the process with a failure status: once the run has ended,
\* its exit status is 0.
C16_PrepareRejectionRecoverable ==
    script \in {"fm", "ff", "bs"} /\ PrepareRejected =>
        /\ ~Called("giveFeedback")
        /\ exitCode # 1

\* C17: in fullflow-mcp-subgraph.js and in the feedback script the three
\* feedback reads are independent: by the time the last of them,
\* sdk.getFeedback, is called, sdk.searchFeedback and sdk.getReputationSummary
\* have both been called, whichever of them threw.
C17_ReadsIndependent ==
    script \in {"fm", "fb"} /\ Called("getFeedback") =>
        Called("searchFeedback") /\ Called("getReputationSummary")

\* the basic suite has run all of tests 2-7
ReadsDone == script = "bs" /\ (pc = "bs_returned" \/ (Exited /\ exitCode = 0))

\* C18: the basic suite without PRIVATE_KEY constructs the SDK without a
\* signer, never calls prepareFeedback or giveFeedback, still issues every
\* read whose TEST_AGENT_ID precondition is met, and exits with status 1 only
\* after a call on the SDK has thrown, never on account of the missing key.
C18_ReadOnlySupported ==
    script = "bs" /\ env.PRIVATE_KEY = "none" =>
        /\ \A k \in DOMAIN calls : calls[k].op = "new FluidSDK" => calls[k].by = "none"
        /\ ~Called("prepareFeedback") /\ ~Called("giveFeedback")
        /\ ReadsDone =>
              \A j \in DOMAIN ReadTests :
                  (ReadTests[j].needsId => env.TEST_AGENT_ID) => Called(ReadTests[j].op)
        /\ exitCode = 1 =>
              /\ Called("new FluidSDK")
              /\ \E msg \in {"SDK constructor threw", "chainId failed", "createAgent failed"} :
                    Logged(msg)

\* C18 witness: a read-only run that went through every read and ended with
\* status 0
C18_Witness ==
    /\ script = "bs" /\ env.PRIVATE_KEY = "none" /\ env.TEST_AGENT_ID
    /\ Exited /\ exitCode = 0
    /\ Logged("running in read-only mode") /\ Called("getReputationSummary")

\* the name an entry is listed under: a resource's uri unless that is absent
\* or empty, the name field otherwise
ListedAs(kind, e) ==
    IF kind = "resources"
      THEN (IF e.uri = "undefined" \/ e.uri = "" THEN e.name ELSE e.uri)
      ELSE e.name

\* C19: in the capability probe of fullflow-mcp-subgraph.js a successful
\* response is reduced to a list as long as the returned entries and in their
\* order: a tool or prompt is listed under its name, a resource under its
\* uri, and under its name exactly when the uri is absent or empty.
C19_NameListReduction ==
    [][\A kind \in Kinds :
         script = "fm" /\ pc = HandlePc(kind) /\ m.resp.status = "ok" =>
             /\ Len(m'[ListField(kind)]) = Len(m.resp.entries)
             /\ \A j \in 1..Len(m.resp.entries) :
                   m'[ListField(kind)][j] = ListedAs(kind, m.resp.entries[j])]_vars

\* C19 witness: two resources came back, the first without a uri, and are
\* listed in that order, after two tools listed in theirs
C19_Witness ==
    /\ script = "fm" /\ pc = "fm_setmcp"
    /\ m.mcpTools = <<"echo", "get_info">>
    /\ m.mcpResources = <<"config", "fluidsdk://status">>

\* nothing but the read-back of the pinned file follows a registration
NothingAfterRegistration ==
    Called("registerIPFS") =>
        \A k \in (First("registerIPFS") + 1)..Len(calls) : calls[k].op = "fetch ipfs"

\* C20: in fullflow-mcp-subgraph.js a run whose outer handler has caught a
\* fatal error has exited with status 1, issues no further call of any kind,
\* and has issued no SDK call after a completed registration: nothing is
\* undone.
C20_FailedAbsorbing ==
    /\ [](script = "fm" /\ Logged("FATAL ERROR") =>
             Exited /\ exitCode = 1 /\ NothingAfterRegistration)
    /\ [][script = "fm" /\ Logged("FATAL ERROR") =>
             calls' = calls /\ exitCode' = exitCode /\ pc' = pc]_vars

\* C20 witness: the registration went through, came back without an agent
\* id, and the run stopped there
C20_Witness ==
    /\ script = "fm" /\ Exited /\ exitCode = 1 /\ Logged("FATAL ERROR")
    /\ Logged("Registration failed - no agent ID returned")
    /\ calls[Len(calls)].op \in {"registerIPFS", "fetch ipfs"}

\* C21: no script retries a write: within one run agent.registerIPFS is
\* called at most once and sdk.giveFeedback is called at most once, whether
\* they returned or threw.
C21_NoWriteRetry ==
    Count("registerIPFS") <= 1 /\ Count("giveFeedback") <= 1

\* C21 witness: giveFeedback threw in fullflow-mcp-subgraph.js and the run
\* ended after that one attempt
C21_Witness ==
    /\ script = "fm" /\ Exited /\ ~m.feedback
    /\ Count("giveFeedback") = 1 /\ Logged("Error in feedback flow")

\* C22: in fullflow-mcp-subgraph.js the connectivity test always hands a
\* result back to main, and main goes on to construct the SDK whatever the
\* result: a run that was warned about an inaccessible MCP server is not
\* stopped by it.
C22_ConnectivityAdvisory ==
    /\ [][script = "fm" /\ pc = "fm_connect" =>
             /\ pc' = "fm_sdk" /\ exitCode' = exitCode
             /\ calls' = Append(calls, Call("fetch /info", "", ""))]_vars
    /\ [](script = "fm" /\ Logged("WARNING: MCP server is not accessible") =>
             /\ ~m.mcpConnected
             /\ pc # "fm_sdk" => Called("new FluidSDK"))

\* C22 witness: the MCP server was not accessible and the agent was
\* registered all the same
C22_Witness ==
    /\ script = "fm" /\ ~m.mcpConnected
    /\ Logged("WARNING: MCP server is not accessible")
    /\ m.newAgentId = AgentId /\ Exited /\ exitCode = 0

\* the calls of fullflow-mcp-subgraph.js that take the new agent's id
IdOps == {"getAgent", "loadAgent", "prepareFeedback", "giveFeedback", "getFeedback"}

\* C23: in fullflow-mcp-subgraph.js getAgent, loadAgent, prepareFeedback,
\* giveFeedback and getFeedback are called only after registerIPFS, only when
\* it returned an agent id, and always with that id; a registration that
\* returned no agent id ends the run with status 1 and none of them called.
C23_ForwardDataFlow ==
    script = "fm" =>
        /\ \A k \in DOMAIN calls :
              calls[k].op \in IdOps =>
                  /\ Called("registerIPFS") /\ First("registerIPFS") < k
                  /\ m.newAgentId # "none"
                  /\ calls[k].id = m.newAgentId
        /\ Called("registerIPFS") /\ m.newAgentId = "none" /\ pc # "fm_ipfsfetch" =>
              /\ Exited /\ exitCode = 1
              /\ \A op \in IdOps : ~Called(op)

\* C23 witness: all five were called, each with the id registerIPFS returned
C23_Witness ==
    /\ script = "fm" /\ m.newAgentId = AgentId
    /\ \A op \in IdOps : \E k \in DOMAIN calls : calls[k].op = op /\ calls[k].id = AgentId

\* C24: in fullflow-mcp-subgraph.js, the full-flow script and the test-mcp
\* script, whenever registerIPFS is called the agent's MCP endpoint has been
\* set successfully and the agent has been marked active earlier in the run.
C24_ProfileBuiltBeforeRegister ==
    script \in {"fm", "ff", "tm"} /\ Called("registerIPFS") =>
        /\ agent.mcp /\ agent.active
        /\ Called("setActive") /\ First("setActive") < First("registerIPFS")

\* C25: in fullflow-mcp-subgraph.js, the full-flow script and the test-mcp
\* script registerIPFS is called only in a run whose SDK has an IPFS client
\* (PINATA_JWT is set) and whose owner balance was read and is not zero.
C25_RegisterNeedsIpfsAndGas ==
    script \in {"fm", "ff", "tm"} /\ Called("registerIPFS") =>
        /\ env.PINATA_JWT /\ m.ipfsClient
        /\ m.balance = "positive"
        /\ \E k \in 1..(First("registerIPFS") - 1) :
              calls[k] = Call("getBalance", "", m.signer)

\* C25 witness: the test-mcp script read a zero balance and returned without
\* registering
C25_Witness ==
    /\ script = "tm" /\ m.ipfsClient /\ m.balance = "zero"
    /\ Logged("No balance for gas fees") /\ ~Called("registerIPFS") /\ Exited

\* C26: in the test-mcp script a process that has spawned the MCP server
\* never exits without having called mcpServerProcess.kill(), after the
\* spawn, whether main completed, returned early or caught an error; and
\* kill is only ever called on a spawned server.
C26_ServerKilledOnExit ==
    script = "tm" =>
        /\ Exited /\ mcpServerProcess # "none" =>
              /\ mcpServerProcess = "killed"
              /\ Called("mcpServerProcess.kill")
              /\ First("spawn") < First("mcpServerProcess.kill")
        /\ Called("mcpServerProcess.kill") => Count("mcpServerProcess.kill") = 1
        /\ mcpServerProcess = "none" => ~Called("mcpServerProcess.kill")

\* C26 witness: the server was running when sdk.chainId() threw, and was
\* killed before the process ended
C26_Witness ==
    /\ script = "tm" /\ Exited /\ mcpServerProcess = "killed"
    /\ Logged("chainId failed")

\* C27: in fullflow-mcp-subgraph.js polling stops at the first lookup that
\* returns the agent: from then on no step issues another getAgent, and the
\* step that follows the successful lookup issues no call at all, so no
\* further wait; and every getAgent call comes directly after exactly one
\* wait of the same fixed 10 seconds.
C27_PollingStopsAtSuccess ==
    /\ [][script = "fm" /\ m.agentData =>
             /\ \A k \in (Len(calls) + 1)..Len(calls') : calls'[k].op # "getAgent"
             /\ pc = "fm_verified" => calls' = calls]_vars
    /\ [](script = "fm" =>
             /\ m.agentData => pc \notin {"fm_lookup", "fm_retry", "fm_retry_lookup"}
             /\ \A k \in DOMAIN calls :
                   calls[k].op = "getAgent" =>
                       /\ k > 2
                       /\ calls[k - 1] = Call("wait 10000", "", "")
                       /\ calls[k - 2].op # "wait 10000")

\* C27 witness: the agent was found by the second retry, after three lookups,
\* and the run went on to its end without a fourth
C27_Witness ==
    /\ script = "fm" /\ m.agentData /\ m.i = 1
    /\ Count("getAgent") = 3 /\ Exited /\ exitCode = 0

\* C28: in testMCPConnection of the test-mcp script a client that client.connect
\* opened has had client.close called on it once the function has returned,
\* whether the six requests succeeded or one of them threw.  The catch of
\* lines 113-116 returns null without closing, so this does not hold.
C28_ConnectedClientClosed ==
    script = "tm" /\ client # "none" /\ pc # "tm_requests" =>
        Called("client.close")

\* C29: every run of main in fullflow-mcp-subgraph.js terminates: when each
\* external call eventually returns or throws, the process eventually calls
\* process.exit with status 0 or 1, whatever the subgraph answers; the
\* polling loop does not run forever.
C29_Terminates == <>(Exited /\ exitCode \in {0, 1})

\* C29 witness: a run that went through the whole polling loop, the agent
\* never found, and still reached process.exit
C29_Witness ==
    /\ script = "fm" /\ Exited /\ exitCode \in {0, 1}
    /\ Count("getAgent") = MaxRetries + 1 /\ ~m.agentData

\* C30: in mcp-server.ts advertisement and dispatch agree.  A tools/call for
\* a name that tools/list returns is never answered "Unknown tool", a
\* prompts/get for a name that prompts/list returns gives the prompt's
\* messages, and a resources/read for a uri that resources/list returns gives
\* that resource's contents.  A name that is not advertised gets a returned
\* error text from tools/call and a thrown error from prompts/get and
\* resources/read.
C30_AdvertisementMatchesDispatch ==
    script = "mcp-server" =>
        LET name == m.request.name
            response == m.response
        IN  /\ m.request.method = "tools/call" =>
                  IF name \in Advertised(ListTools, "name")
                    THEN response # TextResult(<<"Error: Unknown tool", name>>)
                    ELSE response = TextResult(<<"Error: Unknown tool", name>>)
            /\ m.request.method = "prompts/get" =>
                  IF name \in Advertised(ListPrompts, "name")
                    THEN response.kind = "messages"
                    ELSE response = Thrown(<<"Unknown prompt:", name>>)
            /\ m.request.method = "resources/read" =>
                  IF name \in Advertised(ListResources, "uri")
                    THEN response.kind = "contents" /\ response.uri = name
                    ELSE response = Thrown(<<"Unknown resource:", name>>)
            /\ m.request.method = "tools/list" => response.items = ListTools
            /\ m.request.method = "prompts/list" => response.items = ListPrompts
            /\ m.request.method = "resources/list" => response.items = ListResources

\* C30 witness: the server answered a prompts/get for a name it advertises
\* only as a tool, and then the calculate call of the test client
C30_Witness ==
    /\ script = "mcp-server" /\ Len(calls) = 2
    /\ calls[1] = Call("prompts/get", "calculate", "")
    /\ m.request = [method |-> "tools/call", name |-> "calculate",
                    args |-> [defined |-> TRUE, operation |-> "add", a |-> 42, b |-> 58]]
    /\ m.response = TextResult(<<"Result:", 42, "add", 58, "=", 100>>)

====
